---- MODULE Spec2Model ----
(***************************************************************************)
(* Intersection controller of src/app.py: the in-memory `state` record,    *)
(* the request handlers that mutate it (set_mode, set_counts, preset,      *)
(* config, control, tick) and the read-only status handler.                *)
(*                                                                         *)
(* Time is counted in whole units of 0.2 s, so that the three default      *)
(* durations of the source (20 s, 3 s, 0.6 s) are the integers 100, 15, 3. *)
(* time.time() is read by a running tick only; the value it returns is the *)
(* parameter `now` of Tick, never below the previous reading (last_tick).  *)
(* The rolling text log (state["logs"]) is presentation only and is not    *)
(* part of the modelled state.                                             *)
(*                                                                         *)
(* In Spec, SpecVehicle, SpecRun, SpecCounts and SpecLive handlers run to   *)
(* completion one after another (one action per request). SpecConc runs a  *)
(* tick call statement by statement between the other handlers, as the     *)
(* threaded server started by app.run allows.                              *)
(***************************************************************************)
EXTENDS Integers, Sequences, FiniteSets, TLC

VARIABLES
    mode,              \* state["mode"]
    counts,            \* state["counts"]
    waiting,           \* state["waiting"]
    served,            \* state["served"]
    current_lane,      \* state["current_lane"]
    phase,             \* state["phase"]
    green_time,        \* state["green_time"]
    yellow_time,       \* state["yellow_time"]
    release_interval,  \* state["release_interval"]
    green_elapsed,     \* state["green_elapsed"]
    yellow_elapsed,    \* state["yellow_elapsed"]
    last_release,      \* state["last_release"]
    last_tick,         \* state["last_tick"]
    vehicle_moving,    \* state["vehicle_moving"]
    running,           \* state["running"]
    last_lane,         \* state["last_lane"]
    op,                \* history: the request handled last (status, which only reads, and
                       \* requests answered without a write are not recorded)
    hops,              \* history: phases entered during the last tick, in order
    counts_kept,       \* history: counts has not changed since the last start
    nsel,              \* history: Idle->Green selections since the last start, counted
                       \* while mode has been "standard" all along; -1 otherwise
    green_mark,        \* history: clock reading of the tick that last released a
                       \* vehicle or turned a lane green
    tk                 \* the /api/tick call in flight when requests are served by
                       \* several threads: its position and its local variables

stateVars ==
    <<mode, counts, waiting, served, current_lane, phase, green_time, yellow_time,
      release_interval, green_elapsed, yellow_elapsed, last_release, last_tick,
      vehicle_moving, running, last_lane>>

histVars == <<op, hops, counts_kept, nsel, green_mark>>

vars == <<stateVars, histVars, tk>>

-----------------------------------------------------------------------------
(* Bounds of the model *)

\* largest queue length a request may carry
MaxCount == 1

\* largest clock reading
MaxTime == 1

\* the selection counter saturates here
MaxSel == 6

-----------------------------------------------------------------------------
(* Program constants *)

None == "None"

dir_order == <<"N", "E", "S", "W">>

Dirs == {"N", "E", "S", "W"}

\* code points of the direction labels: Python compares the strings by them
Ord == [d \in Dirs |-> CASE d = "N" -> 78 [] d = "E" -> 69 [] d = "S" -> 83 [] d = "W" -> 87]

InitGreenTime == 100

InitYellowTime == 15

InitReleaseInterval == 3

Modes == {"vehicle", "standard"}

\* no tick call in flight
NoTick == [pc |-> "none", now |-> 0, dt |-> 0, ri |-> 0, lane |-> None, nx |-> None]

ZeroCounts == [d \in Dirs |-> 0]

\* dir_order.index(d)
Index(d) == CHOOSE i \in 1..4 : dir_order[i] = d

Min(a, b) == IF a <= b THEN a ELSE b

Max(a, b) == IF a >= b THEN a ELSE b

-----------------------------------------------------------------------------
Init ==
    /\ mode = "vehicle"
    /\ counts = ZeroCounts
    /\ waiting = ZeroCounts
    /\ served = 0
    /\ current_lane = None
    /\ phase = "idle"
    /\ green_time = InitGreenTime
    /\ yellow_time = InitYellowTime
    /\ release_interval = InitReleaseInterval
    /\ green_elapsed = 0
    /\ yellow_elapsed = 0
    /\ last_release = 0
    /\ last_tick = 0
    /\ vehicle_moving = 0
    /\ running = FALSE
    /\ last_lane = None
    /\ op = "init"
    /\ hops = <<>>
    /\ counts_kept = FALSE
    /\ nsel = -1
    /\ green_mark = 0
    /\ tk = NoTick

-----------------------------------------------------------------------------
(* /api/status: builds the response from state, writes nothing *)
Status ==
    UNCHANGED vars

(* /api/set_mode *)
SetMode(m) ==
    /\ IF m \notin Modes
       THEN UNCHANGED <<mode, nsel, op, hops>>
       ELSE /\ mode' = m
            /\ nsel' = IF m = "standard" THEN nsel ELSE -1
            /\ op' = "set_mode"
            /\ hops' = <<>>
    /\ UNCHANGED <<counts, waiting, served, current_lane, phase, green_time, yellow_time,
                   release_interval, green_elapsed, yellow_elapsed, last_release,
                   last_tick, vehicle_moving, running, last_lane, counts_kept, green_mark,
                   tk>>

(* /api/set_counts: req is the JSON body, a map from some of the direction keys to
   integers; a key the body lacks (or whose value is no integer) reads as absent *)
\* (slip: the sign of the value is not tested)
CountAcceptedAnySign(req, d) == d \in DOMAIN req

CountAccepted(req, d) == d \in DOMAIN req /\ req[d] >= 0

\* (slip: the copy is not guarded by running)
CopyToWaitingAlways(run) == TRUE

\* the test that guards the copy of a new count into waiting
CopyToWaiting(run) == ~run

SetCounts(req) ==
    /\ op' = "set_counts"
    /\ hops' = <<>>
    /\ counts' = [d \in Dirs |-> IF CountAccepted(req, d) THEN req[d] ELSE counts[d]]
    /\ waiting' = [d \in Dirs |-> IF CountAccepted(req, d) /\ CopyToWaiting(running)
                                  THEN req[d] ELSE waiting[d]]
    /\ counts_kept' = (counts_kept /\ counts' = counts)
    /\ UNCHANGED <<mode, served, current_lane, phase, green_time, yellow_time,
                   release_interval, green_elapsed, yellow_elapsed, last_release,
                   last_tick, vehicle_moving, running, last_lane, nsel, green_mark, tk>>

(* /api/preset: inp is the list of four integers, in dir_order *)
Preset(inp) ==
    /\ op' = "preset"
    /\ hops' = <<>>
    /\ counts' = [d \in Dirs |-> Max(0, inp[Index(d)])]
    /\ waiting' = IF CopyToWaiting(running) THEN counts' ELSE waiting
    /\ counts_kept' = (counts_kept /\ counts' = counts)
    /\ UNCHANGED <<mode, served, current_lane, phase, green_time, yellow_time,
                   release_interval, green_elapsed, yellow_elapsed, last_release,
                   last_tick, vehicle_moving, running, last_lane, nsel, green_mark, tk>>

(* /api/config: req maps some of the three keys to numbers; float(val) keeps the
   number's value, so each given value is stored as it is, whatever its sign *)
ConfigKeys == {"yellow_time", "release_interval", "green_time"}

ConfigValue(req, key, old) == IF key \in DOMAIN req THEN req[key] ELSE old

Config(req) ==
    /\ op' = "config"
    /\ hops' = <<>>
    /\ yellow_time' = ConfigValue(req, "yellow_time", yellow_time)
    /\ release_interval' = ConfigValue(req, "release_interval", release_interval)
    /\ green_time' = ConfigValue(req, "green_time", green_time)
    /\ UNCHANGED <<mode, counts, waiting, served, current_lane, phase, green_elapsed,
                   yellow_elapsed, last_release, last_tick, vehicle_moving, running,
                   last_lane, counts_kept, nsel, green_mark, tk>>

-----------------------------------------------------------------------------
(* /api/control *)
\* (slip: each queue is filled from the next approach's preset)
StartWaitingShifted(c) == [d \in Dirs |-> c[dir_order[(Index(d) % 4) + 1]]]

StartWaiting(c) == [d \in Dirs |-> c[d]]

\* (slip: start leaves the phase as it is)
StartPhaseKept == phase

StartPhase == "idle"

ControlStart ==
    /\ waiting' = StartWaiting(counts)
    /\ served' = 0
    /\ vehicle_moving' = 0
    /\ phase' = StartPhase
    /\ current_lane' = None
    /\ running' = TRUE
    /\ last_lane' = None
    /\ counts_kept' = TRUE
    /\ nsel' = IF mode = "standard" THEN 0 ELSE -1
    /\ UNCHANGED <<mode, counts, green_time, yellow_time, release_interval,
                   green_elapsed, yellow_elapsed, last_release, last_tick,
                   green_mark, tk>>

\* (slip: pause also turns the signal off)
ControlPauseClearing ==
    /\ running' = FALSE
    /\ phase' = "idle"
    /\ current_lane' = None
    /\ UNCHANGED <<mode, counts, waiting, served, green_time, yellow_time,
                   release_interval, green_elapsed, yellow_elapsed, last_release,
                   last_tick, vehicle_moving, last_lane, counts_kept, nsel, green_mark,
                   tk>>

ControlPause ==
    /\ running' = FALSE
    /\ UNCHANGED <<mode, counts, waiting, served, current_lane, phase, green_time,
                   yellow_time, release_interval, green_elapsed, yellow_elapsed,
                   last_release, last_tick, vehicle_moving, last_lane, counts_kept,
                   nsel, green_mark, tk>>

\* (slip: reset leaves the presets as they are)
ResetCountsKept == counts

ResetCounts == [d \in Dirs |-> 0]

\* (slip: reset leaves the current lane as it is)
ResetLaneKept == current_lane

ResetLane == None

ControlReset ==
    /\ counts' = ResetCounts
    /\ waiting' = ZeroCounts
    /\ served' = 0
    /\ running' = FALSE
    /\ phase' = "idle"
    /\ current_lane' = ResetLane
    /\ vehicle_moving' = 0
    /\ last_lane' = None
    /\ counts_kept' = FALSE
    /\ nsel' = -1
    /\ UNCHANGED <<mode, green_time, yellow_time, release_interval, green_elapsed,
                   yellow_elapsed, last_release, last_tick, green_mark, tk>>

Control(act) ==
    CASE act = "start" -> ControlStart /\ op' = "start" /\ hops' = <<>>
      [] act = "pause" -> ControlPause /\ op' = "pause" /\ hops' = <<>>
      [] act = "reset" -> ControlReset /\ op' = "reset" /\ hops' = <<>>
      [] OTHER -> UNCHANGED vars

-----------------------------------------------------------------------------
(* /api/tick *)

\* (slip: reverse=True is missing and the sort is ascending)
TupleSmaller(a, b) == a[1] < b[1] \/ (a[1] = b[1] /\ Ord[a[2]] < Ord[b[2]])

\* (slip: ties go to the approach that comes first in dir_order)
TupleGreaterByOrder(a, b) == a[1] > b[1] \/ (a[1] = b[1] /\ Index(a[2]) < Index(b[2]))

\* tuple comparison of Python on (value, label) pairs
TupleGreater(a, b) == a[1] > b[1] \/ (a[1] = b[1] /\ Ord[a[2]] > Ord[b[2]])

RECURSIVE SortedDesc(_)
SortedDesc(S) ==
    IF S = {} THEN <<>>
    ELSE LET top == CHOOSE a \in S : \A b \in S \ {a} : TupleGreater(a, b)
         IN  <<top>> \o SortedDesc(S \ {top})

\* sorted([(v, d) for d, v in state["waiting"].items()], reverse=True)
Options(w) == SortedDesc({<<w[d], d>> : d \in Dirs})

\* the lane the vehicle-based branch turns green, None when it turns none green
VehicleChoice(w) ==
    LET options == Options(w)
    IN  IF options # <<>> /\ options[1][1] > 0 THEN options[1][2] ELSE None

\* (slip: the cycle wraps one approach early)
StandardChoiceShort(ll) ==
    IF ll = None THEN "N" ELSE dir_order[((Index(ll) - 1 + 1) % 3) + 1]

\* the lane the standard branch turns green
StandardChoice(ll) ==
    IF ll = None THEN "N" ELSE dir_order[((Index(ll) - 1 + 1) % 4) + 1]

\* (slip: the served vehicle stays in the queue)
ReleasedKept(w, lane) == w

\* (slip: a release empties the lane, catching up on the elapsed time)
ReleasedAll(w, lane) == [w EXCEPT ![lane] = 0]

\* waiting after the release of one vehicle of the lane
Released(w, lane) == [w EXCEPT ![lane] = @ - 1]

\* the release test of the green block
ReleaseDue(w, lane, now, lr, ri) == w[lane] > 0 /\ (now - lr) >= ri

\* (slip: the fixed green ends as soon as green_time is reached)
GreenOverAtLeast(m, w, lane, ge, gt) == IF m = "vehicle" THEN w[lane] = 0 ELSE ge >= gt

\* (slip: the queue is tested as it was before this tick's release)
GreenOverStale(m, w, lane, ge, gt) == IF m = "vehicle" THEN waiting[lane] = 0 ELSE ge > gt

\* the end of green, by mode
GreenOver(m, w, lane, ge, gt) == IF m = "vehicle" THEN w[lane] = 0 ELSE ge > gt

\* the end of yellow
YellowOver(ye, yt) == ye >= yt

\* the lane left in state["current_lane"] when yellow ends
ClearedLane(lane) == None

\* (slip: the idle block is an elif and waits for the next tick once yellow ended)
IdleReachedDeferred(ph, cleared) == ph = "idle" /\ ~cleared

\* the test of the idle block; cleared: the yellow block of this tick ended yellow
IdleReached(ph, cleared) == ph = "idle"

\* (slip: the start of a green leaves state["last_release"] as it was)
SelectStampStale(now, lr) == lr

\* state["last_release"] at the start of a green
SelectStamp(now, lr) == now

\* (slip: the clock is read and stored before running is tested)
TickPausedStamped(now) ==
    /\ hops' = <<>>
    /\ last_tick' = now
    /\ UNCHANGED <<mode, counts, waiting, served, current_lane, phase, green_time,
                   yellow_time, release_interval, green_elapsed, yellow_elapsed,
                   last_release, vehicle_moving, running, last_lane, counts_kept, nsel,
                   green_mark, tk>>

TickPaused(now) ==
    /\ hops' = <<>>
    /\ UNCHANGED <<stateVars, counts_kept, nsel, green_mark, tk>>

TickRunning(now) ==
    LET dt == now - last_tick
        \* green block
        inGreen == phase = "green" /\ current_lane # None
        lane == current_lane
        rel == inGreen /\ ReleaseDue(waiting, lane, now, last_release, release_interval)
        w1 == IF rel THEN Released(waiting, lane) ELSE waiting
        lr1 == IF rel THEN now ELSE last_release
        ge1 == IF inGreen /\ mode # "vehicle" THEN green_elapsed + dt ELSE green_elapsed
        toYellow == inGreen /\ GreenOver(mode, w1, lane, ge1, green_time)
        ph1 == IF toYellow THEN "yellow" ELSE phase
        ye1 == IF toYellow THEN 0 ELSE yellow_elapsed
        \* yellow block
        inYellow == ph1 = "yellow"
        ye2 == IF inYellow THEN ye1 + dt ELSE ye1
        toIdle == inYellow /\ YellowOver(ye2, yellow_time)
        ph2 == IF toIdle THEN "idle" ELSE ph1
        cl2 == IF toIdle THEN ClearedLane(current_lane) ELSE current_lane
        \* idle block
        inIdle == IdleReached(ph2, toIdle)
        std == mode = "standard"
        nx == IF std THEN StandardChoice(last_lane) ELSE VehicleChoice(w1)
        sel == inIdle /\ nx # None
    IN  /\ last_tick' = now
        /\ waiting' = w1
        /\ served' = IF rel THEN served + 1 ELSE served
        /\ green_elapsed' = IF sel THEN 0 ELSE ge1
        /\ yellow_elapsed' = ye2
        /\ last_release' = IF sel THEN SelectStamp(now, lr1) ELSE lr1
        /\ phase' = IF sel THEN "green" ELSE ph2
        /\ current_lane' = IF inIdle THEN nx ELSE cl2
        /\ last_lane' = IF inIdle /\ std THEN nx ELSE last_lane
        /\ vehicle_moving' = 0
        /\ hops' = (IF toYellow THEN <<"yellow">> ELSE <<>>)
                   \o (IF toIdle THEN <<"idle">> ELSE <<>>)
                   \o (IF sel THEN <<"green">> ELSE <<>>)
        /\ nsel' = IF sel /\ nsel >= 0 THEN Min(nsel + 1, MaxSel) ELSE nsel
        /\ green_mark' = IF rel \/ sel THEN now ELSE green_mark
        /\ UNCHANGED <<mode, counts, green_time, yellow_time, release_interval, running,
                       counts_kept, tk>>

Tick(now) ==
    /\ op' = "tick"
    /\ IF ~running THEN TickPaused(now) ELSE TickRunning(now)

-----------------------------------------------------------------------------
(* Requests drawn under Spec: every handler, with queues on two approaches *)

\* the approaches whose queues the requests of Spec fill
BusyDirs == {"N", "W"}

\* bodies of set_counts: one key each, negative, zero or MaxCount
CountRequests == UNION {[{d} -> {-1, 0, MaxCount}] : d \in BusyDirs}

\* bodies of preset: the lists that fill or (with a negative entry) empty N and W
PresetRequests == {<<a, 0, 0, b>> : a \in {-1, MaxCount}, b \in {-1, MaxCount}}

\* durations a config body carries: none (degenerate) or one time unit
DurInputs == {0, 1}

\* bodies of config: all three keys, the same value
ConfigRequests == {[k \in ConfigKeys |-> v] : v \in DurInputs}

ModeRequests == Modes \cup {"bogus"}

ControlRequests == {"start", "pause", "reset", ""}

Next ==
    \/ Status
    \/ \E m \in ModeRequests : SetMode(m)
    \/ \E req \in CountRequests : SetCounts(req)
    \/ \E inp \in PresetRequests : Preset(inp)
    \/ \E req \in ConfigRequests : Config(req)
    \/ \E act \in ControlRequests : Control(act)
    \/ \E now \in last_tick..MaxTime : Tick(now)

Spec == Init /\ [][Next]_vars

-----------------------------------------------------------------------------
(* Vehicle-actuated runs: queues of up to VehMaxCount on all four approaches,
   preset before the run is started; mode stays "vehicle" (Init) throughout *)

\* largest queue length of a vehicle-actuated run
VehMaxCount == 3

\* largest clock reading of a vehicle-actuated run
VehMaxTime == 3

VehCountRequests == [Dirs -> 0..VehMaxCount]

\* bodies of config: those of Spec, and release_interval = 0 alone
RunConfigRequests == ConfigRequests \cup {[k \in {"release_interval"} |-> 0]}

VehicleNext ==
    \/ \E req \in VehCountRequests : ~running /\ SetCounts(req)
    \/ \E req \in RunConfigRequests : ~running /\ Config(req)
    \/ Control("start")
    \/ \E now \in last_tick..VehMaxTime : Tick(now)

SpecVehicle == Init /\ [][VehicleNext]_vars

-----------------------------------------------------------------------------
(* Runs in either mode, with mode switches at any time, long enough for the
   round robin of the standard mode to come back to North; each approach is
   preset empty or to RunCount before the run is started *)

\* largest clock reading of such a run
RunMaxTime == 5

\* the queue length of a filled approach
RunCount == 2

RunCountRequests == [Dirs -> {0, RunCount}]

RunNext ==
    \/ \E m \in Modes : SetMode(m)
    \/ \E req \in RunCountRequests : ~running /\ SetCounts(req)
    \/ \E req \in RunConfigRequests : ~running /\ Config(req)
    \/ Control("start")
    \/ \E now \in last_tick..RunMaxTime : Tick(now)

SpecRun == Init /\ [][RunNext]_vars

\* ---- the two count endpoints with bodies that mix valid and negative values ----
CountDirs == {"N", "S"}

\* values of a valid count go up to CntMax
CntMax == 1

\* bodies of set_counts: N and S, each valid or negative
MixedCountRequests == [CountDirs -> -1..CntMax]

\* bodies of preset: N and S entries valid or negative, E and W zero
MixedPresetRequests == {<<a, 0, b, 0>> : a, b \in -1..CntMax}

CountsNext ==
    \/ \E req \in MixedCountRequests : SetCounts(req)
    \/ \E inp \in MixedPresetRequests : Preset(inp)
    \/ Control("start")
    \/ Control("pause")
    \/ \E now \in last_tick..MaxTime : Tick(now)

SpecCounts == Init /\ [][CountsNext]_vars

-----------------------------------------------------------------------------
(* Requests served by several threads (app.run starts the threaded            *)
(* development server and no handler takes a lock): a tick call advances one   *)
(* statement at a time, tk.pc naming the source line it executes next, and     *)
(* the other handlers run between its statements.                              *)

\* the statement after a plain assignment
Straight(p) ==
    CASE p = "l128" -> "l129" [] p = "l129" -> "l130" [] p = "l130" -> "l131"
      [] p = "l131" -> "l133" [] p = "l135" -> "l136" [] p = "l136" -> "l146"
      [] p = "l139" -> "l140" [] p = "l141" -> "l142" [] p = "l142" -> "l146"
      [] p = "l147" -> "l148" [] p = "l149" -> "l150" [] p = "l150" -> "l153"
      [] p = "l160" -> "l161" [] p = "l161" -> "l162" [] p = "l162" -> "l163"
      [] p = "l163" -> "l164" [] p = "l164" -> "l181" [] p = "l171" -> "l172"
      [] p = "l172" -> "l173" [] p = "l173" -> "l174" [] p = "l174" -> "l181"
      [] p = "l177" -> "l178" [] p = "l178" -> "l181"

\* lines 116-120: the test of running, the clock reading, dt and last_tick
TickEnter(now) ==
    /\ tk.pc = "none"
    /\ op' = "tick"
    /\ hops' = <<>>
    /\ IF ~running
       THEN UNCHANGED <<last_tick, tk>>
       ELSE /\ last_tick' = now
            /\ tk' = [NoTick EXCEPT !.pc = "l123", !.now = now, !.dt = now - last_tick]
    /\ UNCHANGED <<mode, counts, waiting, served, current_lane, phase, green_time,
                   yellow_time, release_interval, green_elapsed, yellow_elapsed,
                   last_release, vehicle_moving, running, last_lane, counts_kept, nsel,
                   green_mark>>

\* one statement of lines 123-182
TickStep ==
    LET p == tk.pc
        Goto(l) == [tk EXCEPT !.pc = l]
    IN  /\ p # "none"
        /\ tk' =
            CASE p = "l123" ->
                    Goto(IF phase = "green" /\ current_lane # None THEN "l125" ELSE "l146")
              [] p = "l125" -> [tk EXCEPT !.pc = "l126", !.ri = release_interval]
              [] p = "l126" -> [tk EXCEPT !.pc = "l127", !.lane = current_lane]
              [] p = "l127" ->
                    \* state["waiting"][None] raises KeyError and ends the call
                    IF tk.lane = None
                    THEN NoTick
                    ELSE Goto(IF ReleaseDue(waiting, tk.lane, tk.now, last_release, tk.ri)
                              THEN "l128" ELSE "l133")
              [] p = "l133" -> Goto(IF mode = "vehicle" THEN "l134" ELSE "l139")
              [] p = "l134" -> Goto(IF waiting[tk.lane] = 0 THEN "l135" ELSE "l146")
              [] p = "l140" -> Goto(IF green_elapsed > green_time THEN "l141" ELSE "l146")
              [] p = "l146" -> Goto(IF phase = "yellow" THEN "l147" ELSE "l153")
              [] p = "l148" ->
                    Goto(IF YellowOver(yellow_elapsed, yellow_time) THEN "l149" ELSE "l153")
              [] p = "l153" -> Goto(IF phase = "idle" THEN "l154" ELSE "l181")
              [] p = "l154" -> Goto(IF mode = "standard" THEN "l155" ELSE "l168")
              [] p = "l155" -> [tk EXCEPT !.pc = "l160", !.nx = StandardChoice(last_lane)]
              [] p = "l168" ->
                    [tk EXCEPT !.pc = IF VehicleChoice(waiting) # None THEN "l171" ELSE "l177",
                               !.nx = VehicleChoice(waiting)]
              [] p = "l181" -> NoTick
              [] OTHER -> Goto(Straight(p))
        /\ waiting' = IF p = "l128" THEN Released(waiting, tk.lane) ELSE waiting
        /\ served' = IF p = "l129" THEN served + 1 ELSE served
        /\ vehicle_moving' = CASE p = "l130" -> vehicle_moving + 1
                               [] p = "l181" -> 0
                               [] OTHER -> vehicle_moving
        /\ last_release' = IF p \in {"l131", "l164", "l174"} THEN tk.now ELSE last_release
        /\ phase' = CASE p \in {"l135", "l141"} -> "yellow"
                      [] p \in {"l149", "l178"} -> "idle"
                      [] p \in {"l161", "l172"} -> "green"
                      [] OTHER -> phase
        /\ yellow_elapsed' = CASE p \in {"l136", "l142"} -> 0
                               [] p = "l147" -> yellow_elapsed + tk.dt
                               [] OTHER -> yellow_elapsed
        /\ green_elapsed' = CASE p = "l139" -> green_elapsed + tk.dt
                              [] p \in {"l163", "l173"} -> 0
                              [] OTHER -> green_elapsed
        /\ current_lane' = CASE p \in {"l150", "l177"} -> None
                             [] p \in {"l162", "l171"} -> tk.nx
                             [] OTHER -> current_lane
        /\ last_lane' = IF p = "l160" THEN tk.nx ELSE last_lane
        /\ UNCHANGED <<mode, counts, green_time, yellow_time, release_interval,
                       last_tick, running, histVars>>

\* bodies of config: every duration 0
ZeroConfigRequests == {[k \in ConfigKeys |-> 0]}

\* bodies of set_counts: North filled
NorthCountRequests == {[d \in {"N"} |-> MaxCount]}

ConcNext ==
    \/ \E now \in last_tick..MaxTime : TickEnter(now)
    \/ TickStep
    \/ Status
    \/ \E act \in {"start", "pause", "reset"} : Control(act)
    \/ \E req \in NorthCountRequests : SetCounts(req)
    \/ \E req \in ZeroConfigRequests : Config(req)
    \/ \E m \in Modes : SetMode(m)

SpecConc == Init /\ [][ConcNext]_vars

-----------------------------------------------------------------------------
(* One run in vehicle mode left to the ticks: counts and durations are set     *)
(* before the start, and after it only tick is called, each call reading a     *)
(* later clock.                                                                 *)

\* approaches hold up to LiveCount vehicles
LiveCount == 1

\* the clock readings of the ticks go up to LiveMaxTime
LiveMaxTime == 120

\* the clock advances by one or two units between two ticks
LiveGaps == {1, 2}

LiveCountRequests == [Dirs -> 0..LiveCount]

LiveTick == \E dt \in LiveGaps : last_tick + dt <= LiveMaxTime /\ Tick(last_tick + dt)

LiveNext ==
    \/ \E req \in LiveCountRequests : ~running /\ SetCounts(req)
    \/ \E req \in ConfigRequests : ~running /\ Config(req)
    \/ ~running /\ Control("start")
    \/ LiveTick

\* what a LiveTick step of a running simulation does to last_tick; no other step
\* of LiveNext changes last_tick
ClockAdvance ==
    /\ running
    /\ \E dt \in LiveGaps : last_tick + dt <= LiveMaxTime /\ last_tick' = last_tick + dt

\* once started, ticks keep arriving, each at a later clock reading
SpecLive == Init /\ [][LiveNext]_vars /\ WF_last_tick(ClockAdvance)

-----------------------------------------------------------------------------
(* Properties *)

durations == <<green_time, yellow_time, release_interval>>

\* C1: a tick handled while running = FALSE changes no field of the state
\* (so any number of them leaves the state as it was)
PausedTickNoop ==
    [][(~running /\ op' = "tick") => UNCHANGED stateVars]_vars

\* a tick has been handled while the run was paused in the middle of a green
PausedTickWitness ==
    /\ op = "tick"
    /\ ~running
    /\ phase = "green"
    /\ waiting[current_lane] > 0

\* C2: the phase is idle exactly when no lane is current
PhaseLaneInv == (phase = "idle") <=> (current_lane = None)

\* a tick has ended a yellow and found no lane to turn green
PhaseLaneWitness ==
    /\ op = "tick"
    /\ hops # <<>>
    /\ hops[Len(hops)] = "idle"
    /\ current_lane = None

\* C3, as stated: while running, no queue exceeds its preset
WaitingWithinCounts == running => \A d \in Dirs : waiting[d] <= counts[d]

\* C3, amended: while running and as long as no request has changed counts since
\* the start, no queue exceeds its preset
WaitingWithinKeptCounts ==
    (running /\ counts_kept) => \A d \in Dirs : waiting[d] <= counts[d]

\* a tick of an untouched run has released a vehicle and left another queue full
WaitingWithinWitness ==
    /\ op = "tick"
    /\ running
    /\ counts_kept
    /\ served > 0
    /\ \E d \in Dirs : waiting[d] < counts[d]
    /\ \E d \in Dirs : waiting[d] = counts[d] /\ counts[d] > 0

\* C4, as stated: while running, none of set_counts, preset, tick and pause
\* changes counts
CountsFrozenWhileRunning ==
    [][(running /\ op' \in {"set_counts", "preset", "tick", "pause"})
        => counts' = counts]_vars

\* C4, amended: while running, tick and pause never change counts, and set_counts
\* and preset (which do write counts) never change waiting
CountsFrozenUnderTick ==
    [][running => /\ (op' \in {"tick", "pause"} => counts' = counts)
                  /\ (op' \in {"set_counts", "preset"} => waiting' = waiting)]_vars

\* set_counts has rewritten a preset during the run, the queues kept from the start
CountsFrozenWitness ==
    /\ op = "set_counts"
    /\ running
    /\ ~counts_kept
    /\ \E d \in Dirs : waiting[d] > counts[d]

\* C9: start copies counts into waiting, zeroes served, sets phase idle with no
\* current and no last lane, sets running, and keeps counts, mode and durations
StartPostcondition ==
    [][op' = "start" =>
        /\ \A d \in Dirs : waiting'[d] = counts[d]
        /\ served' = 0
        /\ phase' = "idle"
        /\ current_lane' = None
        /\ last_lane' = None
        /\ running'
        /\ counts' = counts
        /\ mode' = mode
        /\ durations' = durations]_vars

\* start has been handled after an earlier run advanced the clock, queues preset
StartWitness ==
    /\ op = "start"
    /\ running
    /\ last_tick > 0
    /\ \E d \in Dirs : counts[d] > 0
    /\ waiting = counts

\* C10: reset zeroes counts, waiting and served, sets phase idle with no current and
\* no last lane, clears running; a reset that follows a reset changes nothing
ResetIdempotent ==
    [][op' = "reset" =>
        /\ counts' = ZeroCounts
        /\ waiting' = ZeroCounts
        /\ served' = 0
        /\ phase' = "idle"
        /\ current_lane' = None
        /\ last_lane' = None
        /\ ~running'
        /\ (op = "reset" => UNCHANGED stateVars)]_vars

\* reset has been handled after a run advanced the clock
ResetWitness ==
    /\ op = "reset"
    /\ last_tick > 0
    /\ counts = ZeroCounts
    /\ ~running

\* C5: in a run started in "standard" mode whose mode has not changed, the k-th
\* lane turned green is dir_order[(k-1) mod 4]: N, E, S, W, N, ... whatever waits
RoundRobinInv ==
    (nsel >= 1 /\ nsel < MaxSel) =>
        /\ last_lane = dir_order[((nsel - 1) % 4) + 1]
        /\ (phase = "green" => current_lane = last_lane)

\* the fifth selection of a fixed-cycle run has turned North green again, though
\* North was preset empty and other approaches were not
RoundRobinWitness ==
    /\ op = "tick"
    /\ nsel = 5
    /\ phase = "green"
    /\ current_lane = "N"
    /\ counts_kept
    /\ counts["N"] = 0
    /\ \E d \in Dirs : counts[d] > 0

\* the tie-break order of the selection: West, South, North, East
Preference == <<"W", "S", "N", "E">>

\* the greatest queue length
MaxWaiting(w) == CHOOSE v \in {w[d] : d \in Dirs} : \A d \in Dirs : w[d] <= v

\* the approach with the greatest queue that comes first in Preference
Preferred(w) ==
    LET i == CHOOSE j \in 1..4 :
                 /\ w[Preference[j]] = MaxWaiting(w)
                 /\ \A k \in 1..(j - 1) : w[Preference[k]] # MaxWaiting(w)
    IN  Preference[i]

\* C6: a tick that handles the idle phase in "vehicle" mode turns green the approach
\* with the greatest queue, ties going to West, then South, then North, then East;
\* when every queue is empty it turns none green: phase stays idle, no current lane
VehicleSelectionInv ==
    (op = "tick" /\ running /\ mode = "vehicle") =>
        /\ (hops # <<>> /\ hops[Len(hops)] = "green")
              => /\ MaxWaiting(waiting) > 0
                 /\ current_lane = Preferred(waiting)
        /\ phase = "idle" => /\ MaxWaiting(waiting) = 0
                             /\ current_lane = None

\* a tick has turned West green with North and West tied at two
VehicleSelectionWitness ==
    /\ op = "tick"
    /\ mode = "vehicle"
    /\ hops = <<"green">>
    /\ waiting = [d \in Dirs |-> IF d \in {"N", "W"} THEN 2 ELSE 0]
    /\ current_lane = "W"

\* C7: a tick releases at most one vehicle: served grows by one and the current
\* lane's queue shrinks by one, or neither changes; no other queue changes
SingleReleasePerTick ==
    [][op' = "tick" =>
        \/ served' = served /\ waiting' = waiting
        \/ /\ served' = served + 1
           /\ current_lane # None
           /\ waiting' = [waiting EXCEPT ![current_lane] = @ - 1]]_vars

\* the one tick of a green, RunMaxTime after its start and with no interval to
\* wait for, has released one vehicle and left another on the lane
SingleReleaseWitness ==
    /\ op = "tick"
    /\ mode = "standard"
    /\ nsel = 1
    /\ phase = "green"
    /\ release_interval = 0
    /\ green_elapsed = RunMaxTime
    /\ last_release = last_tick
    /\ served = 1
    /\ waiting[current_lane] >= 1

\* counts fills the approach L alone
SingleLane(c, L) == c[L] > 0 /\ \A d \in Dirs \ {L} : c[d] = 0

\* C8: in a "vehicle" run with one approach L preset to n > 0, each releasing tick
\* leaves served + waiting[L] = n, and the tick that empties L (served = n) is
\* the tick on which green turns yellow
ExhaustiveRelease ==
    [][\A L \in Dirs :
        (/\ op' = "tick"
         /\ running /\ mode = "vehicle" /\ counts_kept
         /\ SingleLane(counts, L)
         /\ served' = served + 1)
        => /\ served' + waiting'[L] = counts[L]
           /\ (waiting'[L] = 0) <=> (hops' # <<>> /\ hops'[1] = "yellow")]_vars

\* the third release has emptied North, preset to three, and turned it yellow
ExhaustiveReleaseWitness ==
    /\ op = "tick"
    /\ mode = "vehicle"
    /\ release_interval = 0
    /\ counts = [d \in Dirs |-> IF d = "N" THEN 3 ELSE 0]
    /\ served = 3
    /\ waiting["N"] = 0
    /\ hops = <<"yellow">>
    /\ phase = "yellow"

\* C11: pause clears running and changes no other field of the state
PauseFrame ==
    [][op' = "pause" =>
        /\ ~running'
        /\ UNCHANGED <<mode, counts, waiting, served, current_lane, phase, green_time,
                       yellow_time, release_interval, green_elapsed, yellow_elapsed,
                       last_release, last_tick, vehicle_moving, last_lane>>]_vars

\* pause has been handled in the middle of a yellow
PauseWitness ==
    /\ op = "pause"
    /\ ~running
    /\ phase = "yellow"
    /\ current_lane # None

\* C12, as stated: the three configured durations are positive in every state
\* (a config request with a non-positive value is rejected)
DurationsPositive == green_time > 0 /\ yellow_time > 0 /\ release_interval > 0

LastHop == IF hops = <<>> THEN None ELSE hops[Len(hops)]

\* the tick handled last has turned a lane green
TurnedGreen == op = "tick" /\ LastHop = "green"

\* C15, as stated: a tick makes at most one phase transition, and the tick that
\* ends yellow leaves the phase idle with no current lane
TickSingleTransition ==
    op = "tick" =>
        /\ Len(hops) <= 1
        /\ hops = <<"idle">> => (phase = "idle" /\ current_lane = None)

\* C15: a tick makes its transitions in the order Green->Yellow, Yellow->Idle,
\* Idle->Green, each at most once and none skipped, so up to three of them; the
\* tick that ends yellow handles idle at once and ends with a lane green, or, in
\* vehicle mode with every queue empty, idle with no current lane
TickTransitions ==
    op = "tick" =>
        /\ hops \in {<<>>, <<"yellow">>, <<"idle">>, <<"green">>, <<"yellow", "idle">>,
                     <<"idle", "green">>, <<"yellow", "idle", "green">>}
        /\ (\E i \in 1..Len(hops) : hops[i] = "idle") =>
              IF mode = "standard" \/ \E d \in Dirs : waiting[d] > 0
              THEN LastHop = "green" /\ phase = "green" /\ current_lane # None
              ELSE LastHop = "idle" /\ phase = "idle" /\ current_lane = None

\* one tick has released the last vehicle of a lane, passed yellow and idle and
\* turned the next lane green
TickTransitionsWitness ==
    /\ op = "tick"
    /\ hops = <<"yellow", "idle", "green">>
    /\ served > 0
    /\ phase = "green"

\* C16, as stated: a tick that turns a lane green, in either mode, leaves it in
\* last_lane, with green_elapsed 0 and last_release the time of the tick, so
\* that last_lane is the current lane whenever the phase is green
LastLaneTracksGreen ==
    /\ TurnedGreen =>
          /\ last_lane = current_lane
          /\ green_elapsed = 0
          /\ last_release = last_tick
    /\ phase = "green" => last_lane = current_lane

\* C17: a tick that finds a lane green enters yellow exactly when, in vehicle
\* mode, the queue of the lane is empty after the release step, or, in standard
\* mode, green_elapsed plus dt exceeds green_time; yellow_elapsed then restarts
\* from 0 (and has dt added by the yellow block of the same tick); green_elapsed
\* grows by dt in standard mode and not at all in vehicle mode
GreenExit ==
    [][(op' = "tick" /\ running /\ phase = "green" /\ current_lane # None) =>
        LET dt == last_tick' - last_tick
            entered == hops' # <<>> /\ hops'[1] = "yellow"
            selected == hops' # <<>> /\ hops'[Len(hops')] = "green"
        IN  /\ entered <=> IF mode = "vehicle"
                           THEN waiting'[current_lane] = 0
                           ELSE green_elapsed + dt > green_time
            /\ entered => yellow_elapsed' = dt
            /\ ~selected =>
                  green_elapsed' = IF mode = "vehicle"
                                   THEN green_elapsed
                                   ELSE green_elapsed + dt]_vars

\* the fixed green of North has run out with a vehicle still waiting there
GreenExitWitness ==
    /\ op = "tick"
    /\ mode = "standard"
    /\ hops # <<>>
    /\ hops[1] = "yellow"
    /\ served = 1
    /\ waiting["N"] = 1
    /\ last_lane = "E"

\* C18, as stated: with a positive release_interval a release comes no sooner
\* than release_interval after the previous release or the start of the green,
\* and a tick that turns a lane green releases nothing
ReleaseSpacingNoneOnGreen ==
    [][(op' = "tick" /\ running /\ release_interval > 0) =>
        /\ served' > served => last_tick' - green_mark >= release_interval
        /\ (hops' # <<>> /\ hops'[Len(hops')] = "green") => served' = served]_vars

\* C18: with a positive release_interval a release comes no sooner than
\* release_interval after the previous release or the start of the green, and a
\* tick that finds the phase idle and turns a lane green releases nothing (a
\* tick that ends one green and starts the next may carry the last release of
\* the green it ends)
ReleaseSpacing ==
    [][(op' = "tick" /\ running /\ release_interval > 0) =>
        /\ served' > served => last_tick' - green_mark >= release_interval
        /\ phase = "idle" => served' = served]_vars

\* two spaced releases, the second on the tick after which the lane is still green
ReleaseSpacingWitness ==
    /\ op = "tick"
    /\ release_interval > 0
    /\ served >= 2
    /\ phase = "green"
    /\ green_mark = last_tick
    /\ last_tick >= 2 * release_interval

\* C14, as stated: with a tick call interleaved with the other requests, every
\* state, in the middle of the call and after it, has phase idle exactly when
\* there is no current lane and has no negative queue
ConsistentSnapshots ==
    /\ (phase = "idle") <=> (current_lane = None)
    /\ \A d \in Dirs : waiting[d] >= 0

\* the sum of a per-direction map
Total(f) == f["N"] + f["E"] + f["S"] + f["W"]

\* every vehicle preset at the start has been served and the signal is idle
ServedIdle ==
    /\ \A d \in Dirs : waiting[d] = 0
    /\ served = Total(counts)
    /\ phase = "idle"
    /\ current_lane = None

\* C19: a run in vehicle mode that only receives ticks, at advancing clock
\* readings, reaches and keeps the state in which every queue is empty, served
\* is the sum of the counts at the start, and the phase is idle with no lane
EventualService ==
    /\ running ~> ServedIdle
    /\ [][(running /\ ServedIdle) => ServedIdle']_vars

\* a run over three approaches has been served to the end
EventualServiceWitness ==
    /\ running
    /\ op = "tick"
    /\ ServedIdle
    /\ served >= 3
    /\ hops = <<>>

====
